---- MODULE Spec2Model ----
(***************************************************************************)
(* State-machine model of fingerprint_auth.py: the register() and          *)
(* authenticate() handlers, the matcher get_good_matches(), the template   *)
(* builder create_template(), and the files they read and write            *)
(* (StudentDetails.csv, Fingerprints/*.npy, Attendance/attendance_*.csv).  *)
(*                                                                         *)
(* Texts (names, id inputs, CSV cells) are sequences of one-character      *)
(* strings, so that parsing and formatting are computed, not assumed.      *)
(* A descriptor array is [width, rows]: `rows' holds the leading           *)
(* coordinates of each descriptor vector, every other coordinate is 0, and *)
(* the numpy .size of the array is Len(rows) * width.                      *)
(***************************************************************************)
EXTENDS Integers, Sequences, FiniteSets, TLC

(***************************************************************************)
(* Bounds of the model.                                                    *)
(***************************************************************************)
MaxSubjects == 2      \* rows of StudentDetails.csv
MaxLedger == 2        \* attendance rows over all date partitions
MaxCoord == 4         \* coordinates 0..MaxCoord in the matcher harness
MaxQueryLen == 2      \* query descriptors in the matcher harness
MaxCandLen == 2       \* candidate descriptors in the matcher harness
MaxElements == 130    \* elements of an array in the usability-test harness

(***************************************************************************)
(* Program constants.                                                      *)
(***************************************************************************)
threshold == 30       \* authenticate: threshold = 30
MinElements == 100    \* desc.size > 100 / live_desc.size < 100
MaxCaptures == 5      \* while len(captures) < 5
RatioNum == 7         \* m.distance < 0.7 * n.distance
RatioDen == 10
SPACE == 32
ESC == 27
NoKey == 0 - 1        \* cv2.waitKey(1) with no key pressed
SiftWidth == 128      \* cv2.SIFT_create descriptors: N x 128 float32
OrbWidth == 32        \* cv2.ORB_create descriptors: N x 32 uint8
FlannChecks == 50     \* search_params = dict(checks=50)
int_max_str_digits == 4300   \* the longest digit string int() converts

(***************************************************************************)
(* Texts: str.isdigit, int(), and the formatting of an integer.            *)
(***************************************************************************)
AsciiDigits == {"0", "1", "2", "3", "4", "5", "6", "7", "8", "9"}

\* Characters for which str.isdigit() is True but int() raises ValueError
\* (superscript digits); "sup2" stands for U+00B2.
SuperDigits == {"sup2"}

\* Decimal digits outside ASCII, which str.isdigit() and int() both take;
\* "arabic7" stands for U+0667 and "fullwidth7" for U+FF17.
DecimalDigits == {"arabic7", "fullwidth7"}

DigitVal(c) ==
    CASE c = "0" -> 0 [] c = "1" -> 1 [] c = "2" -> 2 [] c = "3" -> 3
      [] c = "4" -> 4 [] c = "5" -> 5 [] c = "6" -> 6 [] c = "7" -> 7
      [] c = "8" -> 8 [] c = "9" -> 9
      [] c = "arabic7" -> 7 [] c = "fullwidth7" -> 7

DigitChar(d) ==
    CASE d = 0 -> "0" [] d = 1 -> "1" [] d = 2 -> "2" [] d = 3 -> "3"
      [] d = 4 -> "4" [] d = 5 -> "5" [] d = 6 -> "6" [] d = 7 -> "7"
      [] d = 8 -> "8" [] d = 9 -> "9"

\* A leading minus sign taken for part of a number.
isdigitSigned(s) ==
    Len(s) > 0 /\ \A i \in 1..Len(s) :
        \/ s[i] \in AsciiDigits \cup DecimalDigits \cup SuperDigits
        \/ i = 1 /\ s[i] = "-" /\ Len(s) > 1

\* str.isdigit(): non-empty and every character a digit character.
isdigit(s) ==
    Len(s) > 0 /\ \A i \in 1..Len(s) : s[i] \in AsciiDigits \cup DecimalDigits \cup SuperDigits

Signs == {"-", "+"}

\* The text after an optional sign.
Unsigned(s) == IF s # <<>> /\ s[1] \in Signs THEN Tail(s) ELSE s

\* int(s) succeeds on an optional sign followed by decimal digits, at most
\* sys.get_int_max_str_digits() of them (leading zeros counted); it raises
\* ValueError otherwise.
IntParses(s) ==
    /\ Len(Unsigned(s)) \in 1..int_max_str_digits
    /\ \A i \in 1..Len(Unsigned(s)) : Unsigned(s)[i] \in AsciiDigits \cup DecimalDigits

RECURSIVE DigitsValue(_)
DigitsValue(s) ==
    IF s = <<>> THEN 0
    ELSE 10 * DigitsValue(SubSeq(s, 1, Len(s) - 1)) + DigitVal(s[Len(s)])

IntOf(s) ==
    IF s # <<>> /\ s[1] = "-" THEN 0 - DigitsValue(Unsigned(s))
    ELSE DigitsValue(Unsigned(s))

RECURSIVE IntText(_)
IntText(n) ==
    IF n < 0 THEN <<"-">> \o IntText(0 - n)
    ELSE IF n < 10 THEN <<DigitChar(n)>>
    ELSE Append(IntText(n \div 10), DigitChar(n % 10))

\* str.lower() on one character of the ASCII alphabet of the inputs.
LowerChar(c) ==
    CASE c = "A" -> "a" [] c = "B" -> "b" [] c = "C" -> "c" [] c = "D" -> "d"
      [] c = "E" -> "e" [] c = "F" -> "f" [] c = "G" -> "g" [] c = "H" -> "h"
      [] c = "I" -> "i" [] c = "J" -> "j" [] c = "K" -> "k" [] c = "L" -> "l"
      [] c = "M" -> "m" [] c = "N" -> "n" [] c = "O" -> "o" [] c = "P" -> "p"
      [] c = "Q" -> "q" [] c = "R" -> "r" [] c = "S" -> "s" [] c = "T" -> "t"
      [] c = "U" -> "u" [] c = "V" -> "v" [] c = "W" -> "w" [] c = "X" -> "x"
      [] c = "Y" -> "y" [] c = "Z" -> "z"
      [] OTHER -> c

WebcamText == <<"w", "e", "b", "c", "a", "m">>
UploadText == <<"u", "p", "l", "o", "a", "d">>

\* method.lower() if method else 'webcam'
Lower(method) ==
    IF method = <<>> THEN WebcamText
    ELSE [i \in 1..Len(method) |-> LowerChar(method[i])]

(***************************************************************************)
(* CSV round trip.  to_csv writes each value as text; read_csv infers the  *)
(* type of a column from all of its cells.  A cell that spells a missing   *)
(* value is read as NaN.  A column of integer literals is read as int64    *)
(* (so "07" comes back as 7); a column of numeric literals with a float or *)
(* a NaN among them is read as float64 (so "1.50" comes back as 1.5, "1e3" *)
(* as 1000.0 and "7" as 7.0); a column of boolean literals is read as      *)
(* booleans; any other column is read as strings.  pd.concat gives a       *)
(* column the common dtype of its pieces.  A read value is                 *)
(* represented by the text to_csv writes for it: the repr of a number,     *)
(* True or False, the string itself, and the empty text for NaN.  Cells    *)
(* are texts without blanks at either end, quotes, separators or line      *)
(* breaks.                                                                 *)
(***************************************************************************)
\* pandas' default na_values.
STR_NA_VALUES ==
    {<<>>, <<"#", "N", "/", "A">>, <<"#", "N", "/", "A", " ", "N", "/", "A">>,
     <<"#", "N", "A">>, <<"-", "1", ".", "#", "I", "N", "D">>,
     <<"-", "1", ".", "#", "Q", "N", "A", "N">>, <<"-", "N", "a", "N">>,
     <<"-", "n", "a", "n">>, <<"1", ".", "#", "I", "N", "D">>,
     <<"1", ".", "#", "Q", "N", "A", "N">>, <<"<", "N", "A", ">">>,
     <<"N", "/", "A">>, <<"N", "A">>, <<"N", "U", "L", "L">>,
     <<"N", "a", "N">>, <<"N", "o", "n", "e">>, <<"n", "/", "a">>,
     <<"n", "a", "n">>, <<"n", "u", "l", "l">>}

\* str.lower() of a text.
Lowered(s) == [i \in 1..Len(s) |-> LowerChar(s[i])]

\* The boolean literals of read_csv: true and false in any case.
IsTrue(s) == Lowered(s) = <<"t", "r", "u", "e">>
IsFalse(s) == Lowered(s) = <<"f", "a", "l", "s", "e">>

\* inf and infinity in any case, after an optional sign.
InfTexts == {<<"i", "n", "f">>, <<"i", "n", "f", "i", "n", "i", "t", "y">>}

max_digits == 17      \* digit characters of a literal the float parser reads
MaxDigits == 15       \* significant decimal digits a float64 keeps exactly
MaxScale == 22        \* powers of ten up to 10^22 are exact in float64
MaxExponent == 308    \* the largest decimal exponent the float parser scales by
MaxExponentDigits == 9    \* digits of a written exponent that fit the parser's int
HugeLead == 17976     \* the first five digits of the largest float64, 1.7976...e308

\* The digits of the largest int64, of the magnitude of the smallest int64
\* and of the largest uint64.
Int64Max ==
    <<"9", "2", "2", "3", "3", "7", "2", "0", "3", "6", "8", "5", "4", "7", "7", "5", "8", "0", "7">>
Int64Min ==
    <<"9", "2", "2", "3", "3", "7", "2", "0", "3", "6", "8", "5", "4", "7", "7", "5", "8", "0", "8">>
UInt64Max ==
    <<"1", "8", "4", "4", "6", "7", "4", "4", "0", "7", "3", "7", "0", "9", "5", "5", "1", "6", "1", "5">>

\* The first position of s holding one of chars; 0: none.
Find(s, chars) ==
    IF \E i \in 1..Len(s) : s[i] \in chars
    THEN CHOOSE i \in 1..Len(s) :
             s[i] \in chars /\ \A j \in 1..(i - 1) : s[j] \notin chars
    ELSE 0

AllDigits(s) == \A i \in 1..Len(s) : s[i] \in AsciiDigits

\* The parts of a decimal literal: [sign] digits [. digits] [e [sign] digits]
Mantissa(s) ==
    LET u == Unsigned(s)
        e == Find(u, {"e", "E"})
    IN  IF e = 0 THEN u ELSE SubSeq(u, 1, e - 1)

ExponentText(s) ==
    LET u == Unsigned(s)
        e == Find(u, {"e", "E"})
    IN  SubSeq(u, e + 1, Len(u))

HasExponent(s) == Find(Unsigned(s), {"e", "E"}) # 0

IntPart(s) ==
    LET m == Mantissa(s)
        p == Find(m, {"."})
    IN  IF p = 0 THEN m ELSE SubSeq(m, 1, p - 1)

FracPart(s) ==
    LET m == Mantissa(s)
        p == Find(m, {"."})
    IN  IF p = 0 THEN <<>> ELSE SubSeq(m, p + 1, Len(m))

IsInf(s) ==
    [i \in 1..Len(Unsigned(s)) |-> LowerChar(Unsigned(s)[i])] \in InfTexts

RECURSIVE StripLeadingZeros(_)
StripLeadingZeros(s) ==
    IF s # <<>> /\ s[1] = "0" THEN StripLeadingZeros(Tail(s)) ELSE s

\* The first n elements of s, or all of s.
Prefix(s, n) == SubSeq(s, 1, IF Len(s) < n THEN Len(s) ELSE n)

\* The exponent written in the literal; the parser collects it in a C int,
\* which holds MaxExponentDigits digits.
ExponentValue(s) ==
    IF HasExponent(s)
    THEN (CASE Len(Unsigned(ExponentText(s))) <= MaxExponentDigits ->
                  IntOf(ExponentText(s)))
    ELSE 0

\* The digit characters the float parser reads: the first max_digits of
\* the integer part and of the decimals, leading zeros included.
DigitsRead(int_part, frac_part) ==
    Prefix(int_part, max_digits)
        \o Prefix(frac_part, max_digits - Len(Prefix(int_part, max_digits)))

\* The power of ten the digits read are scaled by: the written exponent,
\* raised by the digits of the integer part left unread and lowered by the
\* decimals read.
Exponent(s, int_part, frac_part) ==
    ExponentValue(s) + (Len(int_part) - Len(Prefix(int_part, max_digits)))
        - (Len(DigitsRead(int_part, frac_part)) - Len(Prefix(int_part, max_digits)))

\* The float parser reports ERANGE: the exponent is above MaxExponent, or
\* number * 10^exponent is beyond the largest float64.  A product within
\* the last rounding steps of that bound (first digits HugeLead) is left
\* undefined.
OutOfRange(number, exponent) ==
    CASE exponent > MaxExponent -> TRUE
      [] exponent <= MaxExponent /\ (number = <<>> \/ exponent <= 0) -> FALSE
      [] /\ exponent \in 1..MaxExponent
         /\ number # <<>>
         /\ Len(number) + exponent # MaxExponent + 1 ->
            Len(number) + exponent > MaxExponent + 1
      [] /\ exponent \in 1..MaxExponent
         /\ number # <<>>
         /\ Len(number) + exponent = MaxExponent + 1
         /\ DigitsValue(Prefix(number \o <<"0", "0", "0", "0">>, 5)) # HugeLead ->
            DigitsValue(Prefix(number \o <<"0", "0", "0", "0">>, 5)) > HugeLead

\* The cell converts to a float64: it spells an infinity, or it is a
\* decimal literal within the range of the parser.
FloatParses(s) ==
    \/ IsInf(s)
    \/ /\ AllDigits(IntPart(s)) /\ AllDigits(FracPart(s))
       /\ Len(IntPart(s)) + Len(FracPart(s)) > 0
       /\ HasExponent(s) =>
             Unsigned(ExponentText(s)) # <<>> /\ AllDigits(Unsigned(ExponentText(s)))
       /\ ~OutOfRange(StripLeadingZeros(DigitsRead(IntPart(s), FracPart(s))),
                      Exponent(s, IntPart(s), FracPart(s)))

RECURSIVE StripTrailingZeros(_)
StripTrailingZeros(s) ==
    IF s # <<>> /\ s[Len(s)] = "0"
    THEN StripTrailingZeros(SubSeq(s, 1, Len(s) - 1))
    ELSE s

Zeros(n) == [i \in 1..n |-> "0"]

\* repr of the float64 with significant digits d (no zero at either end)
\* times 10^x: positional for a decimal exponent in -4..15, else scientific
\* with an exponent of two digits at least.
FloatDigitsText(d, x) ==
    LET n == Len(d)
        sci == n - 1 + x
    IN  CASE n = 0 -> <<"0", ".", "0">>
          [] n > 0 ->
             IF sci \in (0 - 4)..15
             THEN IF x >= 0 THEN d \o Zeros(x) \o <<".", "0">>
                  ELSE IF n + x > 0
                       THEN SubSeq(d, 1, n + x) \o <<".">> \o SubSeq(d, n + x + 1, n)
                       ELSE <<"0", ".">> \o Zeros(0 - (n + x)) \o d
             ELSE <<d[1]>> \o (IF n > 1 THEN <<".">> \o Tail(d) ELSE <<>>)
                  \o <<"e", IF sci < 0 THEN "-" ELSE "+">>
                  \o (IF sci \in (0 - 9)..9 THEN <<"0">> ELSE <<>>)
                  \o IntText(IF sci < 0 THEN 0 - sci ELSE sci)

\* The text to_csv writes for the float64 the cell is read as.  The parser
\* reads the first max_digits digit characters of the literal, leading
\* zeros included: further digits of the integer part only raise the
\* exponent, further decimals are dropped.  The digits read make `number',
\* which is then scaled by 10^exponent.  number is exact up to MaxDigits
\* significant digits and the scaling is one correctly rounded operation
\* up to 10^MaxScale; beyond these the float64 depends on the rounding of
\* the parser and is left undefined.  FloatScaled writes the float64 out,
\* d being number without its trailing zeros.
FloatScaled(neg, number, d, exponent) ==
    CASE number = <<>> -> neg \o <<"0", ".", "0">>
      [] Len(number) \in 1..MaxDigits /\ exponent \in (0 - MaxScale)..MaxScale ->
            neg \o FloatDigitsText(d, exponent + (Len(number) - Len(d)))

\* The digit characters of the integer part and of the decimals that the
\* parser reads, `dropped' digits of the integer part left unread.
FloatDigitsRead(neg, int_read, frac_read, dropped, written) ==
    FloatScaled(neg, StripLeadingZeros(int_read \o frac_read),
                StripTrailingZeros(StripLeadingZeros(int_read \o frac_read)),
                written + dropped - Len(frac_read))

FloatParts(neg, int_part, int_read, frac_part, written) ==
    FloatDigitsRead(neg, int_read, Prefix(frac_part, max_digits - Len(int_read)),
                    Len(int_part) - Len(int_read), written)

FloatText(s) ==
    IF IsInf(s)
    THEN (IF s[1] = "-" THEN <<"-">> ELSE <<>>) \o <<"i", "n", "f">>
    ELSE FloatParts(IF s # <<>> /\ s[1] = "-" THEN <<"-">> ELSE <<>>,
                    IntPart(s), Prefix(IntPart(s), max_digits), FracPart(s),
                    ExponentValue(s))

BoolText(s) == IF IsTrue(s) THEN <<"T", "r", "u", "e">>
               ELSE <<"F", "a", "l", "s", "e">>

\* The digits at the start of s.
DigitRun(s) ==
    LET stop == {i \in 1..Len(s) : s[i] \notin AsciiDigits}
    IN  IF stop = {} THEN s
        ELSE SubSeq(s, 1, (CHOOSE i \in stop : \A j \in stop : i <= j) - 1)

\* The number of digits x is greater than the number of digits y, neither
\* with a leading zero.
GreaterDigits(x, y) ==
    \/ Len(x) > Len(y)
    \/ /\ Len(x) = Len(y)
       /\ \E i \in 1..Len(x) :
             DigitVal(x[i]) > DigitVal(y[i]) /\ \A j \in 1..(i - 1) : x[j] = y[j]

\* The integer converters read the digits after the sign and stop with
\* the overflow error at the digit that passes the limit; characters left
\* over after the digits are the other error.
ScanDigits(body, run, limit) ==
    IF run = <<>> THEN "invalid"
    ELSE IF GreaterDigits(StripLeadingZeros(run), limit) THEN "overflow"
    ELSE IF Len(run) < Len(body) THEN "invalid"
    ELSE "ok"

str_to_int64(s) ==
    ScanDigits(Unsigned(s), DigitRun(Unsigned(s)),
               IF s[1] = "-" THEN Int64Min ELSE Int64Max)

\* str_to_uint64 takes note of a minus sign ("sint") and of a number above
\* the largest int64 ("uint") without an error.
str_to_uint64(s) ==
    IF s[1] = "-" THEN "sint"
    ELSE IF /\ ScanDigits(Unsigned(s), DigitRun(Unsigned(s)), UInt64Max) = "ok"
            /\ GreaterDigits(StripLeadingZeros(Unsigned(s)), Int64Max)
    THEN "uint"
    ELSE ScanDigits(Unsigned(s), DigitRun(Unsigned(s)), UInt64Max)

\* The conversion of a column stops at its first cell, in row order, that
\* has an error; cells spelling a missing value are passed over.
\* scanned[i] is what the cell converter gives for cell i.
FirstError(cells, scanned) ==
    LET bad == {i \in 1..Len(cells) :
                   /\ cells[i] \notin STR_NA_VALUES
                   /\ scanned[i] \in {"invalid", "overflow"}}
    IN  IF bad = {} THEN "ok"
        ELSE scanned[CHOOSE i \in bad : \A j \in bad : i <= j]

try_int64(cells) ==
    FirstError(cells, [i \in 1..Len(cells) |->
                          IF cells[i] \in STR_NA_VALUES THEN "ok"
                          ELSE str_to_int64(cells[i])])

\* _try_uint64, tried after the overflow of _try_int64: "uint64", the
\* error of the first bad cell, or "conflict" (ValueError) for a number
\* above the largest int64 next to a negative number or a missing value.
\* Negative numbers alone end in the overflow error.
try_uint64(cells) ==
    LET seen(k) == \E i \in 1..Len(cells) :
                       cells[i] \notin STR_NA_VALUES /\ str_to_uint64(cells[i]) = k
        null == \E i \in 1..Len(cells) : cells[i] \in STR_NA_VALUES
        scanned == [i \in 1..Len(cells) |->
                       IF cells[i] \in STR_NA_VALUES THEN "ok"
                       ELSE str_to_uint64(cells[i])]
    IN  IF FirstError(cells, scanned) # "ok"
        THEN FirstError(cells, scanned)
        ELSE IF seen("uint") /\ (null \/ seen("sint")) THEN "conflict"
        ELSE IF seen("sint") THEN "overflow"
        ELSE "uint64"

\* The column is left as it is, as strings, cells that spell a missing
\* value included (the ValueError of _try_uint64).
KeepsNA(cells) ==
    cells # <<>> /\ try_int64(cells) = "overflow" /\ try_uint64(cells) = "conflict"

\* The column is read as int64 and, for the missing values in it, cast to
\* float64.
Upcast(cells) ==
    /\ try_int64(cells) = "ok"
    /\ \E i \in 1..Len(cells) : cells[i] \in STR_NA_VALUES

\* The dtype read_csv gives a column of cells: the first of int64 (uint64
\* on overflow), float64 and bool that converts every cell, strings
\* otherwise.  An overflow
\* of both integer converters ends the search with strings at
\* once.  Booleans with a NaN among them are kept as an object column of
\* booleans and NaN ("boolna" here).  A column without rows is an object
\* column.
ColumnKind(cells) ==
    LET rows == 1..Len(cells)
        isna == [i \in rows |-> cells[i] \in STR_NA_VALUES]
        isbool == [i \in rows |-> IsTrue(cells[i]) \/ IsFalse(cells[i])]
    IN  IF cells = <<>> THEN "object"
        ELSE IF try_int64(cells) = "ok"
        THEN (IF Upcast(cells) THEN "float64" ELSE "int64")
        ELSE IF try_int64(cells) = "overflow" /\ try_uint64(cells) # "invalid"
        THEN (IF try_uint64(cells) = "uint64" THEN "uint64" ELSE "object")
        ELSE IF \A i \in rows : isna[i] \/ FloatParses(cells[i]) THEN "float64"
        ELSE IF \A i \in rows : isbool[i] THEN "bool"
        ELSE IF \A i \in rows : isna[i] \/ isbool[i] THEN "boolna"
        ELSE "object"

\* The text to_csv writes for a float64 value given by its text; NaN is
\* written as the empty text.
AsFloat(s) == IF s = <<>> THEN <<>> ELSE FloatText(s)

\* The text to_csv writes for the integer a cell spells: no plus sign, no
\* leading zeros, no minus sign on zero.
IntNormal(s) ==
    IF StripLeadingZeros(Unsigned(s)) = <<>> THEN <<"0">>
    ELSE (IF s[1] = "-" THEN <<"-">> ELSE <<>>) \o StripLeadingZeros(Unsigned(s))

ReadColumn(cells) ==
    LET rows == 1..Len(cells)
        kind == ColumnKind(cells)
    IN  [i \in rows |->
            IF cells[i] \in STR_NA_VALUES /\ ~KeepsNA(cells) THEN <<>>
            ELSE CASE kind \in {"int64", "uint64"} -> IntNormal(cells[i])
                   [] kind = "float64" ->
                      IF Upcast(cells) THEN FloatText(IntNormal(cells[i]))
                      ELSE FloatText(cells[i])
                   [] kind \in {"bool", "boolna"} -> BoolText(cells[i])
                   [] kind = "object" -> cells[i]]

\* row['Name'] of df.iterrows(): a row is handed out as a Series of the
\* common dtype of the Id (int64) and the Name of the row, so a Name of a
\* uint64 column comes as a float64.
RowName(frame, k) ==
    IF ColumnKind([i \in 1..Len(frame) |-> frame[i].Name]) = "uint64"
    THEN AsFloat(frame[k].Name)
    ELSE frame[k].Name

\* The dtype of a one-row column made of the value at `cell' of a column
\* read by read_csv and handed out by iterrows: NaN is a float, whatever
\* column it stands in.
ValueDType(column, cell) ==
    LET kind == ColumnKind(column)
    IN  IF KeepsNA(column) THEN "object"
        ELSE IF cell = <<>> THEN "float64"
        ELSE IF kind = "boolna" THEN "bool"
        ELSE IF kind = "uint64" THEN "float64"
        ELSE kind

\* The dtype pd.concat gives a column made of pieces of dtypes a and b.
CommonDType(a, b) ==
    IF a = b THEN a
    ELSE IF {a, b} \subseteq {"int64", "uint64", "float64"} THEN "float64"
    ELSE "object"

\* pd.read_csv(details_path): the rows of the subject directory as values.
ReadDetails(file) ==
    LET names == ReadColumn([i \in 1..Len(file) |-> file[i].Name])
    IN  [i \in 1..Len(file) |-> [Id |-> file[i].Id, Name |-> names[i]]]

\* pd.read_csv(attendance_file): the rows of one date partition as values.
ReadAttendance(file) ==
    LET names == ReadColumn([i \in 1..Len(file) |-> file[i].Name])
    IN  [i \in 1..Len(file) |-> [file[i] EXCEPT !.Name = names[i]]]

\* The duplicate check left out.
IdExistsNever(df, id) == FALSE

\* user_id in df['Id'].values
IdExists(df, id) == \E i \in 1..Len(df) : df[i].Id = id

(***************************************************************************)
(* Descriptor arrays.                                                      *)
(***************************************************************************)
Size(desc) == Len(desc.rows) * desc.width

\* np.array([]): what extract_descriptors returns when nothing is detected.
EmptyDesc == [width |-> 0, rows |-> <<>>]

Rep(n, v) == [i \in 1..n |-> v]

\* Every capture admitted.
UsableAlways(desc) == TRUE

\* register: desc.size > 100
Usable(desc) == Size(desc) > MinElements

\* authenticate: live_desc.size < 100
PoorQuality(desc) == Size(desc) < MinElements

(***************************************************************************)
(* The matcher.  A DMatch is [queryIdx, trainIdx, distance], distance      *)
(* being the Euclidean distance the L2 matchers report.  The vectors of    *)
(* the model lie at whole-number distances from each other (Root is        *)
(* undefined otherwise); on whole numbers the floating-point comparison    *)
(* m.distance < 0.7 * n.distance gives what 10 * m < 7 * n gives.          *)
(*                                                                         *)
(* flann.knnMatch does not fix its result in two cases, and knnMatch and   *)
(* get_good_matches are therefore the SETS of the lists a call can return: *)
(*  - the KD-tree search stops after `checks' rows, so on a train array of *)
(*    more rows the pair of a query row is the two nearest among the rows  *)
(*    the search looked at, at least `checks' of them;                     *)
(*  - on a train array of one row the search fills one of the two result   *)
(*    slots and the other keeps what the memory held: a negative index is  *)
(*    dropped, index 0 is turned into a second DMatch with the distance    *)
(*    the memory held, an index past the array raises and sends the call   *)
(*    to the brute-force matcher.                                          *)
(***************************************************************************)
RECURSIVE SumSq(_, _, _)
SumSq(u, v, k) ==
    IF k = 0 THEN 0
    ELSE SumSq(u, v, k - 1) + (u[k] - v[k]) * (u[k] - v[k])

\* Squared Euclidean distance of two descriptor vectors.
Dist2(u, v) == SumSq(u, v, Len(u))

\* The square root of a perfect square.
Root(n) == CHOOSE d \in 0..n : d * d = n

\* Train index j comes before k in the neighbour order of query vector q:
\* by distance, then by index.
Closer(q, rows, j, k) ==
    \/ Dist2(q, rows[j]) < Dist2(q, rows[k])
    \/ Dist2(q, rows[j]) = Dist2(q, rows[k]) /\ j < k

\* The index of the row of `rows' nearest to q among those not yet taken.
Nearest(q, rows, taken) ==
    LET left == (1..Len(rows)) \ taken
    IN  CHOOSE j \in left : \A k \in left : k = j \/ Closer(q, rows, j, k)

DMatch(q, rows, i, j) ==
    [queryIdx |-> i, trainIdx |-> j, distance |-> Root(Dist2(q, rows[j]))]

\* The subsets of S of at most k elements.
RECURSIVE SubsetsUpTo(_, _)
SubsetsUpTo(S, k) ==
    IF k = 0 THEN {{}}
    ELSE LET smaller == SubsetsUpTo(S, k - 1)
         IN  smaller \cup {T \cup {x} : T \in smaller, x \in S}

\* The sets of train rows a KD-tree search with checks=50 can leave
\* unvisited: none of at most 50 rows, all but 50 at most of more.
Skipped(n) ==
    SubsetsUpTo(1..n, IF n > FlannChecks THEN n - FlannChecks ELSE 0)

\* The result slot a search has written: index -1, as the slot an exact
\* search of a single row is known not to have produced a neighbour for.
NoSlot == [trainIdx |-> 0 - 1, far |-> FALSE]

\* What the second result slot can hold after the search of a train array
\* of n rows: with n = 1 the slot is not written, and holds a negative
\* index, index 0 with some distance, or an index past the array (indices
\* as OpenCV counts them, from 0).  The distance the slot holds is used in
\* the ratio test only, and is told apart by the side of the test it
\* falls on: `far' when the first distance is less than 0.7 times it.
Slots(n) ==
    IF n = 1
    THEN {NoSlot} \cup {[trainIdx |-> 0, far |-> f] : f \in BOOLEAN}
                  \cup {[trainIdx |-> 1, far |-> FALSE]}
    ELSE {NoSlot}

\* A distance on the given side of the ratio test against distance d.
FarDistance(d, far) == IF far THEN 2 * d + 1 ELSE 0

\* One row of matcher.knnMatch(desc1, desc2, k=2): the two train rows
\* nearest to query row q among those the search visited, nearest first;
\* on a single train row the one neighbour, followed by a DMatch made of
\* the second slot when that holds a valid index.
knnPair(q, rows, i, skipped, slot) ==
    LET first == Nearest(q, rows, skipped)
    IN  IF Len(rows) >= 2
        THEN <<DMatch(q, rows, i, first),
               DMatch(q, rows, i, Nearest(q, rows, skipped \cup {first}))>>
        ELSE IF slot.trainIdx = 0
        THEN <<DMatch(q, rows, i, first),
               [queryIdx |-> i, trainIdx |-> 1,
                distance |-> FarDistance(DMatch(q, rows, i, first).distance, slot.far)]>>
        ELSE <<DMatch(q, rows, i, first)>>

\* bf.knnMatch(desc1, desc2, k=2): exact, and one DMatch only per query row
\* on a single train row.
bfMatch(desc1, desc2) ==
    [i \in 1..Len(desc1.rows) |-> knnPair(desc1.rows[i], desc2.rows, i, {}, NoSlot)]

\* The lists whose k-th element is drawn from the k-th set.
RECURSIVE Product(_, _)
Product(sets, k) ==
    IF k = 0 THEN {<<>>}
    ELSE {Append(s, x) : s \in Product(sets, k - 1), x \in sets[k]}

\* What the FLANN search can return for query row i; <<>> stands for the
\* cv2.error raised on a second slot holding an index past the array.
flannPairs(q, rows, i) ==
    {IF slot.trainIdx >= Len(rows) THEN <<>> ELSE knnPair(q, rows, i, skipped, slot) :
        skipped \in Skipped(Len(rows)), slot \in Slots(Len(rows))}

\* flann.knnMatch, and bf.knnMatch when FLANN raises.  The KD-tree index
\* takes float32 rows only, so ORB arrays go to the brute-force matcher;
\* so does a call whose FLANN search raised.
knnMatch(desc1, desc2) ==
    IF desc1.width = OrbWidth
    THEN {bfMatch(desc1, desc2)}
    ELSE LET n == Len(desc1.rows)
             found == Product([i \in 1..n |-> flannPairs(desc1.rows[i], desc2.rows, i)], n)
         IN  {IF \E i \in 1..n : matches[i] = <<>>
              THEN bfMatch(desc1, desc2)
              ELSE matches : matches \in found}

\* Both matchers reject a query and a train array of different vector
\* length or element type (cv2.error out of get_good_matches).
MatchRaises(desc1, desc2) ==
    /\ Size(desc1) # 0
    /\ Size(desc2) # 0
    /\ desc1.width # desc2.width

\* m.distance < 0.7 * n.distance
RatioTest(m, n) == RatioDen * m.distance < RatioNum * n.distance

\* The loop of Lowe's ratio test over the knn pairs.
RECURSIVE RatioFilter(_, _)
RatioFilter(matches, k) ==
    IF k = 0 THEN <<>>
    ELSE LET good == RatioFilter(matches, k - 1)
             match_pair == matches[k]
         IN  IF Len(match_pair) = 2 /\ RatioTest(match_pair[1], match_pair[2])
             THEN Append(good, match_pair[1])
             ELSE good

\* The lists get_good_matches(desc1, desc2) can return.
get_good_matches(desc1, desc2) ==
    IF Size(desc1) = 0 \/ Size(desc2) = 0 THEN {<<>>}
    ELSE {RatioFilter(matches, Len(matches)) : matches \in knnMatch(desc1, desc2)}

(***************************************************************************)
(* create_template: the mean vector over the rows of all captures, each   *)
(* coordinate kept as the fraction sum / n in lowest terms; <<>> is None.  *)
(* np.mean raises on rows of different length.                             *)
(***************************************************************************)
RECURSIVE Concat(_)
Concat(seqs) ==
    IF seqs = <<>> THEN <<>>
    ELSE Concat(SubSeq(seqs, 1, Len(seqs) - 1)) \o seqs[Len(seqs)]

RECURSIVE VecSum(_, _)
VecSum(rows, k) ==
    IF k = 1 THEN rows[1]
    ELSE LET s == VecSum(rows, k - 1)
         IN  [c \in 1..Len(s) |-> s[c] + rows[k][c]]

\* np.mean raises on rows of different length; a capture without rows
\* adds nothing to all_descriptors.
TemplateRaises(captures) ==
    \E i, j \in 1..Len(captures) :
        /\ captures[i].rows # <<>>
        /\ captures[j].rows # <<>>
        /\ captures[i].width # captures[j].width

RECURSIVE Gcd(_, _)
Gcd(a, b) == IF b = 0 THEN a ELSE Gcd(b, a % b)

Mean(sum, n) ==
    LET g == Gcd(sum, n) IN [num |-> sum \div g, den |-> n \div g]

create_template(captures) ==
    LET all_descriptors == Concat([i \in 1..Len(captures) |-> captures[i].rows])
    IN  IF captures = <<>> \/ all_descriptors = <<>>
        THEN <<>>
        ELSE LET sum == VecSum(all_descriptors, Len(all_descriptors))
             IN  [c \in 1..Len(sum) |-> Mean(sum[c], Len(all_descriptors))]

(***************************************************************************)
(* Inputs: what the dialogs, the file chooser, the camera and the clock    *)
(* can deliver.                                                            *)
(***************************************************************************)
Sift(rows) == [width |-> SiftWidth, rows |-> rows]
Orb(rows) == [width |-> OrbWidth, rows |-> rows]

\* Two enrolment fingers; Probe(n, m) scores n against FingerA and n + m
\* against FingerB, FarProbe scores 0 against both.
FingerA == Sift(<< <<0>>, <<10>> >>)
FingerB == Sift(<< <<0>>, <<3>> >>)
Probe(n, m) == Sift(Rep(n, <<1>>) \o Rep(m, <<5>>))
FarProbe == Sift(<< <<40>> >>)
\* ORB output of 4 and of 3 keypoints (128 and 96 elements).
OrbFour == Orb(Rep(4, <<0>>))
OrbThree == Orb(Rep(3, <<0>>))

\* A candidate of one row more than the KD-tree search visits: `checks'
\* rows at one end of the range and one at the other.
Crowd == Sift(Append(Rep(FlannChecks, <<MaxCoord>>), <<0>>))

RegImages == {FingerA, FingerB, OrbFour, OrbThree, EmptyDesc}
RegFrames == {FingerA, OrbFour, OrbThree}
AuthImages == {Probe(threshold, 0), Probe(threshold - 1, 1), FarProbe,
               OrbFour, OrbThree, EmptyDesc}
AuthFrames == {Probe(threshold, 0), OrbThree}

\* askopenfilename / cv2.imread: cancelled, unreadable, or an image.
Cancelled == [file |-> "", readable |-> FALSE, desc |-> EmptyDesc]
Unreadable == [file |-> "path", readable |-> FALSE, desc |-> EmptyDesc]
Image(d) == [file |-> "path", readable |-> TRUE, desc |-> d]

NameInputs == {<<>>, <<"A", "l">>, <<"0", "7">>, <<"N", "A">>}
IdInputs ==
    {<<>>, <<"x">>, <<"sup2">>, <<"-", "7">>, <<"0">>, <<"7">>, <<"0", "7">>,
     <<"arabic7">>}
MethodInputs ==
    {<<>>, WebcamText, UploadText, <<"U", "P", "L", "O", "A", "D">>,
     <<"U", "p", "l", "o", "a", "d">>, <<"x">>}
Keys == {SPACE, ESC, NoKey}
\* time.time(): readings of the wall clock, one per acceptance.  Two
\* readings can be equal, and the later reading can be the earlier time.
Timestamps ==
    {[day |-> "2026-10-29", second |-> 0], [day |-> "2026-10-29", second |-> 1],
     [day |-> "2026-10-30", second |-> 0]}

\* datetime.fromtimestamp(ts).strftime('%Y-%m-%d')
DateOf(ts) == ts.day

\* datetime.fromtimestamp(ts).strftime('%H:%M:%S'), within the first ten
\* seconds after nine o'clock.
TimeOf(ts) == <<"0", "9", ":", "0", "0", ":", "0", DigitChar(ts.second)>>

Dates == {DateOf(ts) : ts \in Timestamps}

(***************************************************************************)
(* State.                                                                  *)
(***************************************************************************)
VARIABLES
    details,      \* StudentDetails/StudentDetails.csv: rows [Id, Name]
    templates,    \* Fingerprints/{id}_template.npy, by id
    descriptors,  \* Fingerprints/{id}_descriptors.npy, by id
    attendance,   \* Attendance/attendance_{date}.csv by date; <<>>: no file
    pc,           \* where the running handler stands; "idle": none runs
    name,         \* register: name
    user_id,      \* register: user_id
    df,           \* register / authenticate: df as read at the start
    captures,     \* register: captures
    live_desc,    \* authenticate: live_desc; <<>> is None
    attendance_entry, \* authenticate: the row made of best_id, best_name,
                  \* date, time_str and best_score, and the dtype of its
                  \* Name column, once the result is Accepted; <<>> before
    outcome,      \* what the finished handler showed
    acquired,     \* the handler has asked for a file or read the camera
    log,          \* every entry handed to the ledger, in order
    turn,         \* authenticate's webcam loop: what the camera and the
                  \* keyboard offered in its last turn; <<>>: no turn yet
    peer,         \* the locals of a second running instance of the program
                  \* while the first one is the one taking steps
    query,        \* matcher harness: desc1
    candidate,    \* matcher harness: desc2
    good          \* matcher harness: the list get_good_matches returned

vars == <<details, templates, descriptors, attendance, pc, name, user_id, df,
          captures, live_desc, attendance_entry, outcome, acquired, log, turn,
          peer, query, candidate, good>>

files == <<details, templates, descriptors, attendance>>
gallery == <<details, templates, descriptors>>
harness == <<query, candidate, good>>

NoId == <<>>
UnknownName == <<"Unknown">>
NoOutcome == [op |-> "none", result |-> "none", id |-> NoId, name |-> <<>>, score |-> 0]
Outcome(op, result) == [NoOutcome EXCEPT !.op = op, !.result = result]

NoFile == <<>>

\* The locals of a handler, and their values when no handler runs.
Locals ==
    [pc |-> pc, name |-> name, user_id |-> user_id, df |-> df,
     captures |-> captures, live_desc |-> live_desc,
     attendance_entry |-> attendance_entry, outcome |-> outcome,
     acquired |-> acquired, turn |-> turn]

IdleLocals ==
    [pc |-> "idle", name |-> <<>>, user_id |-> 0, df |-> <<>>,
     captures |-> <<>>, live_desc |-> <<>>, attendance_entry |-> <<>>,
     outcome |-> NoOutcome, acquired |-> FALSE, turn |-> <<>>]

RECURSIVE SumLen(_, _)
SumLen(f, S) ==
    IF S = {} THEN 0
    ELSE LET x == CHOOSE y \in S : TRUE
         IN  Len(f[x]) + SumLen(f, S \ {x})

LedgerRows == SumLen(attendance, Dates)

Init ==
    /\ details = <<>>
    /\ templates = <<>>
    /\ descriptors = <<>>
    /\ attendance = [d \in Dates |-> NoFile]
    /\ pc = "idle"
    /\ name = <<>>
    /\ user_id = 0
    /\ df = <<>>
    /\ captures = <<>>
    /\ live_desc = <<>>
    /\ attendance_entry = <<>>
    /\ outcome = NoOutcome
    /\ acquired = FALSE
    /\ log = <<>>
    /\ turn = <<>>
    /\ peer = IdleLocals
    /\ query = EmptyDesc
    /\ candidate = EmptyDesc
    /\ good = <<>>

(***************************************************************************)
(* register()                                                              *)
(***************************************************************************)
\* The handler returns: its locals are gone, `outcome' is what it showed.
Finish(result) ==
    /\ pc' = "done"
    /\ outcome' = result

\* register, from the name dialog to the method dialog.
RegisterStart(name_input, id_input, method_input) ==
    /\ pc = "idle"
    /\ Len(details) < MaxSubjects
    /\ acquired' = FALSE
    /\ UNCHANGED <<files, live_desc, log, harness, turn, peer, attendance_entry>>
    /\ IF name_input = <<>>
       THEN /\ Finish(Outcome("register", "Cancelled"))
            /\ UNCHANGED <<name, user_id, df, captures>>
       ELSE IF ~isdigit(id_input)
       THEN /\ Finish(Outcome("register", "InvalidId"))
            /\ name' = name_input
            /\ UNCHANGED <<user_id, df, captures>>
       ELSE IF ~IntParses(id_input)
       THEN /\ Finish(Outcome("register", "ValueError"))
            /\ name' = name_input
            /\ UNCHANGED <<user_id, df, captures>>
       ELSE /\ name' = name_input
            /\ user_id' = IntOf(id_input)
            /\ df' = ReadDetails(details)
            /\ captures' = <<>>
            /\ IF IdExists(df', user_id')
               THEN Finish(Outcome("register", "DuplicateId"))
               ELSE /\ pc' = IF Lower(method_input) = UploadText
                             THEN "reg_upload" ELSE "reg_webcam"
                    /\ outcome' = NoOutcome

\* register, from `if captures:' to the first np.save.
Persist(caps) ==
    IF caps = <<>>
    THEN /\ Finish(Outcome("register", "NoValidCaptures"))
         /\ UNCHANGED templates
    ELSE IF TemplateRaises(caps)
    THEN /\ Finish(Outcome("register", "TemplateError"))
         /\ UNCHANGED templates
    ELSE /\ templates' = (user_id :> create_template(caps)) @@ templates
         /\ pc' = "reg_save_descriptors"
         /\ UNCHANGED outcome

\* register, the upload branch.
RegisterUpload(choice) ==
    /\ pc = "reg_upload"
    /\ acquired' = TRUE
    /\ captures' = IF choice.file # "" /\ choice.readable /\ Usable(choice.desc)
                   THEN Append(captures, choice.desc)
                   ELSE captures
    /\ Persist(captures')
    /\ UNCHANGED <<details, descriptors, attendance, name, user_id, df,
                   live_desc, log, harness, turn, peer, attendance_entry>>

\* register, one turn of the webcam loop.
RegisterFrame(ret, key, frame) ==
    /\ pc = "reg_webcam"
    /\ acquired' = TRUE
    /\ captures' = IF ret /\ key = SPACE /\ Usable(frame)
                   THEN Append(captures, frame)
                   ELSE captures
    /\ IF (ret /\ key = ESC) \/ Len(captures') >= MaxCaptures
       THEN Persist(captures')
       ELSE UNCHANGED <<pc, outcome, templates>>
    /\ UNCHANGED <<details, descriptors, attendance, name, user_id, df,
                   live_desc, log, harness, turn, peer, attendance_entry>>

\* np.save(f'Fingerprints/{user_id}_descriptors.npy', captures[0])
RegisterSaveDescriptors ==
    /\ pc = "reg_save_descriptors"
    /\ descriptors' = (user_id :> captures[1]) @@ descriptors
    /\ pc' = "reg_save_details"
    /\ UNCHANGED <<details, templates, attendance, name, user_id, df, captures,
                   live_desc, outcome, acquired, log, harness, turn, peer, attendance_entry>>

\* pd.concat([df, new_entry]).to_csv(details_path)
AppendSubject(frame, id, nm) == Append(frame, [Id |-> id, Name |-> nm])

RegisterSaveDetails ==
    /\ pc = "reg_save_details"
    /\ details' = AppendSubject(df, user_id, name)
    /\ Finish([Outcome("register", "Registered") EXCEPT !.id = <<user_id>>, !.name = name])
    /\ UNCHANGED <<templates, descriptors, attendance, name, user_id, df, captures,
                   live_desc, acquired, log, harness, turn, peer, attendance_entry>>

\* The handler has returned to the main loop.
Return ==
    /\ pc = "done"
    /\ pc' = "idle"
    /\ name' = <<>>
    /\ user_id' = 0
    /\ df' = <<>>
    /\ captures' = <<>>
    /\ live_desc' = <<>>
    /\ outcome' = NoOutcome
    /\ acquired' = FALSE
    /\ turn' = <<>>
    /\ attendance_entry' = <<>>
    /\ UNCHANGED <<files, log, harness, peer>>

(***************************************************************************)
(* authenticate()                                                          *)
(***************************************************************************)
\* The check of the empty directory left out.
IsEmptyNever(frame) == FALSE

\* df.empty
IsEmpty(frame) == Len(frame) = 0

\* authenticate, from reading the subject directory to the method dialog.
AuthenticateStart(method_input) ==
    /\ pc = "idle"
    /\ LedgerRows < MaxLedger
    /\ df' = ReadDetails(details)
    /\ acquired' = FALSE
    /\ live_desc' = <<>>
    /\ IF IsEmpty(df')
       THEN Finish(Outcome("authenticate", "NoRegisteredUsers"))
       ELSE /\ pc' = IF Lower(method_input) = UploadText
                     THEN "auth_upload" ELSE "auth_webcam"
            /\ outcome' = NoOutcome
    /\ turn' = <<>>
    /\ UNCHANGED <<files, name, user_id, captures, log, harness, peer, attendance_entry>>

\* authenticate, the upload branch.
AuthenticateUpload(choice) ==
    /\ pc = "auth_upload"
    /\ acquired' = TRUE
    /\ IF choice.file = ""
       THEN /\ Finish(Outcome("authenticate", "Silent"))
            /\ UNCHANGED live_desc
       ELSE IF ~choice.readable
       THEN /\ Finish(Outcome("authenticate", "CouldNotRead"))
            /\ UNCHANGED live_desc
       ELSE /\ live_desc' = <<choice.desc>>
            /\ IF PoorQuality(choice.desc)
               THEN Finish(Outcome("authenticate", "PoorQuality"))
               ELSE /\ pc' = "auth_match"
                    /\ UNCHANGED outcome
    /\ UNCHANGED <<files, name, user_id, df, captures, log, harness, turn, peer, attendance_entry>>

\* authenticate, one turn of the webcam loop.
AuthenticateFrame(ret, key, frame) ==
    /\ pc = "auth_webcam"
    /\ acquired' = TRUE
    /\ IF ret /\ key = SPACE
       THEN /\ live_desc' = <<frame>>
            /\ pc' = IF PoorQuality(frame) THEN "auth_webcam" ELSE "auth_match"
            /\ UNCHANGED outcome
       ELSE IF ret /\ key = ESC
       THEN /\ Finish(Outcome("authenticate", "Cancelled"))
            /\ UNCHANGED live_desc
       ELSE UNCHANGED <<pc, outcome, live_desc>>
    /\ turn' = <<[ret |-> ret, key |-> key]>>
    /\ UNCHANGED <<files, name, user_id, df, captures, log, harness, peer, attendance_entry>>

\* best_score = 0; best_name = "Unknown"; best_id = None
NoBest == [score |-> 0, name |-> UnknownName, id |-> NoId]

\* The comparison of the loop made non-strict: the last of equals wins.
BetterOrEqual(score, best_score) == score >= best_score

\* if score > best_score
Better(score, best_score) == score > best_score

\* The lists get_good_matches can return in the loop, one for each row of
\* df (<<>> for a row the loop skips).
LoopMatches(live, frame, stored) ==
    Product([k \in 1..Len(frame) |->
                IF frame[k].Id \in DOMAIN stored /\ ~MatchRaises(live, stored[frame[k].Id])
                THEN get_good_matches(live, stored[frame[k].Id])
                ELSE {<<>>}],
            Len(frame))

\* The loop over df.iterrows(), up to row k; matched[k] is what
\* get_good_matches returned for row k.
RECURSIVE MatchLoop(_, _, _, _)
MatchLoop(frame, stored, matched, k) ==
    IF k = 0 THEN NoBest
    ELSE LET best == MatchLoop(frame, stored, matched, k - 1)
             row == frame[k]
         IN  IF row.Id \in DOMAIN stored
             THEN LET score == Len(matched[k])
                  IN  IF Better(score, best.score)
                      THEN [score |-> score, name |-> RowName(frame, k), id |-> <<row.Id>>]
                      ELSE best
             ELSE best

\* get_good_matches raises for some row of the loop.
LoopRaises(live, frame, stored) ==
    \E k \in 1..Len(frame) :
        /\ frame[k].Id \in DOMAIN stored
        /\ MatchRaises(live, stored[frame[k].Id])

\* The comparison with the threshold made strict.
AcceptStrict(best_score) == best_score > threshold

\* if best_score >= threshold
Accept(best_score) == best_score >= threshold

\* pd.concat([existing, attendance_entry]): the rows of both; the Name
\* column gets the common dtype of the two Name columns, and integers that
\* end in a float64 column are written as floats.
ConcatAttendance(file, entry, name_dtype) ==
    LET existing == ReadAttendance(file)
        kind == ColumnKind([i \in 1..Len(file) |-> file[i].Name])
        dtype == CommonDType(IF kind = "boolna" THEN "object" ELSE kind, name_dtype)
        both == Append(existing, entry)
    IN  IF dtype = "float64"
        THEN [i \in 1..Len(both) |-> [both[i] EXCEPT !.Name = AsFloat(both[i].Name)]]
        ELSE both

\* The entry dropped when the date's file already has a row of its subject.
RecordAttendanceOnce(ledger, entry, name_dtype) ==
    [ledger EXCEPT ![entry.Date] =
        IF ledger[entry.Date] # NoFile
        THEN LET existing == ReadAttendance(ledger[entry.Date])
             IN  IF \E k \in 1..Len(existing) : existing[k].Id = entry.Id
                 THEN existing
                 ELSE ConcatAttendance(ledger[entry.Date], entry, name_dtype)
        ELSE <<entry>>]

\* Record attendance: read the date's file if it exists, concatenate, write.
RecordAttendance(ledger, entry, name_dtype) ==
    [ledger EXCEPT ![entry.Date] =
        IF ledger[entry.Date] # NoFile
        THEN ConcatAttendance(ledger[entry.Date], entry, name_dtype)
        ELSE <<entry>>]

\* The dtype of the Name column of pd.DataFrame({..., 'Name': [best_name]}):
\* best_name is the str "Unknown" or the value of a row of df.
NameDType(frame, best) ==
    IF best.id = NoId THEN "object"
    ELSE ValueDType([i \in 1..Len(frame) |-> frame[i].Name], best.name)

AttendanceEntry(best, date, time_str) ==
    [Id |-> best.id, Name |-> best.name, Date |-> date, Time |-> time_str,
     Score |-> best.score]

\* The ledger written after the Failed message as well.
AfterResultRecord(best) == "auth_record"

\* if best_score >= threshold: ... record attendance; else: the Failed
\* message and the end of the handler.
AfterResult(best) == IF Accept(best.score) THEN "auth_record" ELSE "done"

\* The Failed message without the best match.
VerdictAnonymous(best) ==
    [op |-> "authenticate",
     result |-> IF Accept(best.score) THEN "Accepted" ELSE "Rejected",
     id |-> IF Accept(best.score) THEN best.id ELSE NoId,
     name |-> IF Accept(best.score) THEN best.name ELSE UnknownName,
     score |-> best.score]

\* The message box of the authentication result.
Verdict(best) ==
    [op |-> "authenticate",
     result |-> IF Accept(best.score) THEN "Accepted" ELSE "Rejected",
     id |-> best.id, name |-> best.name, score |-> best.score]

\* authenticate, from the comparison loop to the message box of the result;
\* on the Accepted branch the clock is read before the box is shown.
AuthenticateDecide ==
    /\ pc = "auth_match"
    /\ IF LoopRaises(live_desc[1], df, descriptors)
       THEN /\ Finish(Outcome("authenticate", "MatchError"))
            /\ UNCHANGED attendance_entry
       ELSE \E matched \in LoopMatches(live_desc[1], df, descriptors), ts \in Timestamps :
                    LET best == MatchLoop(df, descriptors, matched, Len(df))
                        date == DateOf(ts)
                        time_str == TimeOf(ts)
                    IN  /\ outcome' = Verdict(best)
                        /\ pc' = AfterResult(best)
                        /\ attendance_entry' =
                              IF pc' = "auth_record"
                              THEN <<AttendanceEntry(best, date, time_str),
                                     NameDType(df, best)>>
                              ELSE <<>>
    /\ UNCHANGED <<files, name, user_id, df, captures, live_desc, acquired, log,
                   harness, turn, peer>>

\* authenticate, after the Success box is dismissed: record attendance.
AuthenticateRecord ==
    /\ pc = "auth_record"
    /\ attendance' =
          RecordAttendance(attendance, attendance_entry[1], attendance_entry[2])
    /\ log' = Append(log, attendance_entry[1])
    /\ pc' = "done"
    /\ UNCHANGED <<gallery, name, user_id, df, captures, live_desc,
                   attendance_entry, outcome, acquired, harness, turn, peer>>

Next ==
    \/ \E n \in NameInputs, i \in IdInputs, m \in MethodInputs : RegisterStart(n, i, m)
    \/ \E c \in {Cancelled, Unreadable} \cup {Image(d) : d \in RegImages} : RegisterUpload(c)
    \/ \E r \in BOOLEAN, k \in Keys, f \in RegFrames : RegisterFrame(r, k, f)
    \/ RegisterSaveDescriptors
    \/ RegisterSaveDetails
    \/ \E m \in MethodInputs : AuthenticateStart(m)
    \/ \E c \in {Cancelled, Unreadable} \cup {Image(d) : d \in AuthImages} : AuthenticateUpload(c)
    \/ \E r \in BOOLEAN, k \in Keys, f \in AuthFrames : AuthenticateFrame(r, k, f)
    \/ AuthenticateDecide
    \/ AuthenticateRecord
    \/ Return

Spec == Init /\ [][Next]_vars

(***************************************************************************)
(* Two instances of the program on the same directories, each running      *)
(* register().  One instance takes steps at a time; Switch hands over to   *)
(* the other one between two steps, so the steps of the two sessions       *)
(* interleave in every order.                                              *)
(***************************************************************************)
Switch ==
    /\ pc' = peer.pc
    /\ name' = peer.name
    /\ user_id' = peer.user_id
    /\ df' = peer.df
    /\ captures' = peer.captures
    /\ live_desc' = peer.live_desc
    /\ attendance_entry' = peer.attendance_entry
    /\ outcome' = peer.outcome
    /\ acquired' = peer.acquired
    /\ turn' = peer.turn
    /\ peer' = Locals
    /\ UNCHANGED <<files, log, harness>>

\* Each of the two instances runs one register() session.
NextConcurrent ==
    \/ \E n \in NameInputs, i \in IdInputs, m \in MethodInputs : RegisterStart(n, i, m)
    \/ \E c \in {Cancelled, Unreadable} \cup {Image(d) : d \in RegImages} : RegisterUpload(c)
    \/ \E r \in BOOLEAN, k \in Keys, f \in RegFrames : RegisterFrame(r, k, f)
    \/ RegisterSaveDescriptors
    \/ RegisterSaveDetails
    \/ Switch

SpecConcurrent == Init /\ [][NextConcurrent]_vars

(***************************************************************************)
(* The matcher on its own: get_good_matches applied to every pair of       *)
(* descriptor arrays within the bounds, SIFT (float32) and ORB (uint8).    *)
(***************************************************************************)
HarnessRows(maxlen) ==
    UNION {[1..n -> {<<c>> : c \in 0..MaxCoord}] : n \in 0..maxlen}

HarnessDescs(maxlen) ==
    {EmptyDesc} \cup {Sift(rows) : rows \in HarnessRows(maxlen)}
                \cup {Orb(rows) : rows \in HarnessRows(maxlen)}

InitMatch ==
    /\ details = <<>>
    /\ templates = <<>>
    /\ descriptors = <<>>
    /\ attendance = [d \in Dates |-> NoFile]
    /\ pc = "match_call"
    /\ name = <<>>
    /\ user_id = 0
    /\ df = <<>>
    /\ captures = <<>>
    /\ live_desc = <<>>
    /\ attendance_entry = <<>>
    /\ outcome = NoOutcome
    /\ acquired = FALSE
    /\ log = <<>>
    /\ turn = <<>>
    /\ peer = IdleLocals
    /\ query \in HarnessDescs(MaxQueryLen)
    /\ candidate \in HarnessDescs(MaxCandLen) \cup {Crowd}
    /\ good = <<>>

MatchCall ==
    /\ pc = "match_call"
    /\ IF MatchRaises(query, candidate)
       THEN good' = <<>> /\ pc' = "match_raised"
       ELSE /\ \E returned \in get_good_matches(query, candidate) : good' = returned
            /\ pc' = "match_done"
    /\ UNCHANGED <<files, name, user_id, df, captures, live_desc, outcome,
                   acquired, log, turn, peer, attendance_entry, query, candidate>>

SpecMatch == InitMatch /\ [][MatchCall]_vars

(***************************************************************************)
(* The two usability tests on their own, as functions of desc.size: the   *)
(* test of register() and then the test of authenticate() applied to an   *)
(* array of every element count up to MaxElements.  (The extractors of    *)
(* OpenCV return 128 or 32 elements for each keypoint; the tests          *)
(* themselves read the element count only.)                               *)
(***************************************************************************)
Flat(n) == [width |-> 1, rows |-> Rep(n, <<0>>)]

InitGate ==
    /\ details = <<>>
    /\ templates = <<>>
    /\ descriptors = <<>>
    /\ attendance = [d \in Dates |-> NoFile]
    /\ pc = "gate_register"
    /\ name = <<>>
    /\ user_id = 0
    /\ df = <<>>
    /\ captures = <<>>
    /\ live_desc = <<>>
    /\ attendance_entry = <<>>
    /\ outcome = NoOutcome
    /\ acquired = FALSE
    /\ log = <<>>
    /\ turn = <<>>
    /\ peer = IdleLocals
    /\ query \in {Flat(n) : n \in 0..MaxElements}
    /\ candidate = EmptyDesc
    /\ good = <<>>

\* register: if desc.size > 100: captures.append(desc)
GateRegister ==
    /\ pc = "gate_register"
    /\ captures' = IF Usable(query) THEN <<query>> ELSE <<>>
    /\ pc' = "gate_authenticate"
    /\ UNCHANGED <<files, name, user_id, df, live_desc, outcome, acquired, log,
                   turn, peer, attendance_entry, query, candidate, good>>

\* authenticate: if live_desc.size < 100: the error box; else the loop.
GateAuthenticate ==
    /\ pc = "gate_authenticate"
    /\ live_desc' = <<query>>
    /\ IF PoorQuality(query)
       THEN /\ outcome' = Outcome("authenticate", "PoorQuality")
            /\ pc' = "gate_refused"
       ELSE /\ outcome' = outcome
            /\ pc' = "gate_passed"
    /\ UNCHANGED <<files, name, user_id, df, captures, acquired, log, turn, peer,
                   attendance_entry, query, candidate, good>>

NextGate == GateRegister \/ GateAuthenticate

SpecGate == InitGate /\ [][NextGate]_vars

(***************************************************************************)
(* Properties.                                                             *)
(***************************************************************************)
DetailsIds == {details[i].Id : i \in 1..Len(details)}

RegisterDone(result) ==
    pc = "done" /\ outcome.op = "register" /\ outcome.result = result

AuthenticateDone(result) ==
    pc = "done" /\ outcome.op = "authenticate" /\ outcome.result = result

\* C1: in every reachable state a template or descriptor file exists for an
\* id if and only if that id has a row in the subject directory.
C1_GalleryPaired ==
    \A id \in DOMAIN templates \cup DOMAIN descriptors \cup DetailsIds :
        (id \in DOMAIN templates \/ id \in DOMAIN descriptors) <=> id \in DetailsIds

\* C2: a register() call whose id is already in the subject directory ends
\* with DuplicateId before any capture step, changes no file, and so no id
\* ever has more than one row, and every row has its two files.
C2_DuplicateRejected ==
    /\ [](pc \in {"reg_upload", "reg_webcam", "reg_save_descriptors", "reg_save_details"}
            => user_id \notin DetailsIds)
    /\ [](RegisterDone("DuplicateId")
            => ~acquired /\ captures = <<>> /\ user_id \in DetailsIds)
    /\ [](\A i, j \in 1..Len(details) : details[i].Id = details[j].Id => i = j)
    /\ [](\A id \in DetailsIds : id \in DOMAIN templates /\ id \in DOMAIN descriptors)
    /\ [][pc' = "done" /\ outcome'.result = "DuplicateId" => UNCHANGED files]_vars

C2_Witness == RegisterDone("DuplicateId") /\ Len(details) = 1

\* The scores of the enrolled subjects against the live capture, in
\* directory order, and their maximum.
Score(desc1, desc2) ==
    LET lengths == {Len(returned) : returned \in get_good_matches(desc1, desc2)}
    IN  CHOOSE n \in lengths : lengths = {n}

RECURSIVE ScoresUpTo(_)
ScoresUpTo(k) ==
    IF k = 0 THEN <<>>
    ELSE Append(ScoresUpTo(k - 1), Score(live_desc[1], descriptors[df[k].Id]))

Scores == ScoresUpTo(Len(df))

MaxOf(scores) ==
    CHOOSE m \in {scores[k] : k \in 1..Len(scores)} :
        \A k \in 1..Len(scores) : scores[k] <= m

MaxScore == MaxOf(Scores)

Decided == AuthenticateDone("Accepted") \/ AuthenticateDone("Rejected")

\* C3: for a usable query and a non-empty gallery the verdict is Accepted if
\* and only if the best score over the gallery is at least the threshold.
C3_ThresholdBoundary ==
    Decided /\ Size(live_desc[1]) > MinElements /\ Len(df) > 0
        => (outcome.result = "Accepted" <=> MaxScore >= threshold)

C3_Witness ==
    /\ AuthenticateDone("Accepted")
    /\ Size(live_desc[1]) > MinElements
    /\ MaxScore = threshold

\* C4: the attendance ledger changes only in a step that ends in Accepted; a
\* step that ends in Rejected or in an error leaves every partition as it was.
C4_RejectedNotRecorded ==
    [][/\ attendance' # attendance => outcome'.op = "authenticate" /\ outcome'.result = "Accepted"
       /\ pc' = "done" /\ outcome'.result # "Accepted" => attendance' = attendance]_vars

C4_Witness == AuthenticateDone("Rejected") /\ log # <<>>

OnDate(d, entries) ==
    LET Is(e) == e.Date = d
    IN  SelectSeq(entries, Is)

\* C5: each date partition holds exactly the entries recorded on that date,
\* unchanged and in arrival order.
C5_LedgerAppendOnly == \A d \in Dates : attendance[d] = OnDate(d, log)

\* The first position, in directory order, of the maximum of the scores.
FirstBest(scores) ==
    CHOOSE k \in 1..Len(scores) :
        /\ scores[k] = MaxOf(scores)
        /\ \A j \in 1..(k - 1) : scores[j] < MaxOf(scores)

ReportsFirstBest(scores) ==
    /\ outcome.id = <<df[FirstBest(scores)].Id>>
    /\ outcome.name = df[FirstBest(scores)].Name
    /\ outcome.score = MaxOf(scores)

\* C6 as stated: the subject authenticate() reports is the first-listed
\* subject with the maximum score over the whole gallery.
C6_ReportsMaximum == Decided => \A scores \in {Scores} : ReportsFirstBest(scores)

\* C6 as amended: the reported subject is the first-listed subject with the
\* maximum score when that maximum is at least 1; when every subject scores
\* 0 no subject is reported (name "Unknown", id None, score 0).
C6_ReportsPositiveMaximum ==
    Decided =>
        \A scores \in {Scores} :
            IF MaxOf(scores) > 0 THEN ReportsFirstBest(scores)
            ELSE outcome.id = NoId /\ outcome.name = UnknownName /\ outcome.score = 0

C6_Witness ==
    /\ Decided
    /\ Len(df) = 2
    /\ \A scores \in {Scores} : scores[1] = scores[2] /\ scores[1] > 0
    /\ outcome.id = <<df[1].Id>>

C8_EmptyGallery ==
    /\ [](pc \in {"auth_upload", "auth_webcam", "auth_match", "auth_record"}
            => Len(details) > 0)
    /\ [](pc = "done" /\ outcome.op = "authenticate" /\ Len(details) = 0
            => /\ outcome.result = "NoRegisteredUsers"
               /\ ~acquired
               /\ live_desc = <<>>
               /\ outcome.id = NoId /\ outcome.score = 0)
    /\ [][pc' = "done" /\ outcome'.op = "authenticate" /\ Len(details) = 0
            => attendance' = attendance]_vars

C8_Witness == AuthenticateDone("NoRegisteredUsers") /\ ~acquired

\* C9: a register() session with no usable capture fails and creates no
\* template, no descriptor file and no subject row; every stored primary
\* descriptor array is non-empty and has more than 100 elements.
C9_NoTemplateWithoutCapture ==
    /\ \A id \in DOMAIN descriptors :
          Len(descriptors[id].rows) > 0 /\ Size(descriptors[id]) > MinElements
    /\ pc = "done" /\ outcome.op = "register" /\ acquired /\ captures = <<>>
       => /\ outcome.result = "NoValidCaptures"
          /\ user_id \notin DOMAIN templates
          /\ user_id \notin DOMAIN descriptors
          /\ user_id \notin DetailsIds
    /\ pc \in {"reg_save_descriptors", "reg_save_details"} \/ RegisterDone("Registered")
       => captures # <<>> /\ \A i \in 1..Len(captures) : Size(captures[i]) > MinElements

C9_Witness == RegisterDone("NoValidCaptures") /\ acquired /\ details # <<>>

\* The k-th smallest distance from q to the rows, counted with multiplicity.
KthDist2(q, rows, k) ==
    LET D == {Dist2(q, rows[j]) : j \in 1..Len(rows)}
        AtMost(d) == Cardinality({j \in 1..Len(rows) : Dist2(q, rows[j]) <= d})
        Below(d) == Cardinality({j \in 1..Len(rows) : Dist2(q, rows[j]) < d})
    IN  CHOOSE d \in D : Below(d) < k /\ AtMost(d) >= k

\* The query descriptors whose nearest distance is less than 0.7 times the
\* second-nearest distance.
Distinctive ==
    {i \in 1..Len(query.rows) :
        /\ Len(candidate.rows) >= 2
        /\ RatioDen * RatioDen * KthDist2(query.rows[i], candidate.rows, 1)
             < RatioNum * RatioNum * KthDist2(query.rows[i], candidate.rows, 2)}

UploadGaveNoImage ==
    /\ pc = "done"
    /\ outcome.op = "authenticate"
    /\ acquired
    /\ live_desc = <<>>
    /\ outcome.result # "Cancelled"

\* C11: every authenticate() session in which the acquisition yields no
\* image ends with an explicit acquisition failure shown to the caller, never
\* silently and never as a Rejected verdict.
C11_AcquisitionFailureExplicit ==
    UploadGaveNoImage => outcome.result = "CouldNotRead"

\* A Rejected verdict on a usable query.
RejectedUsable ==
    AuthenticateDone("Rejected") /\ Size(live_desc[1]) > MinElements /\ Len(df) > 0

\* The verdict carries the id, name and score of row k of the directory.
ReportsRow(scores, k) ==
    /\ outcome.id = <<df[k].Id>>
    /\ outcome.name = df[k].Name
    /\ outcome.score = scores[k]

\* C12 as stated: a Rejected verdict on a usable query against a non-empty
\* gallery carries the id, name and score of an enrolled subject, also when
\* every subject scores 0.
C12_RejectedNamesCandidate ==
    RejectedUsable =>
        \A scores \in {Scores} : \E k \in 1..Len(df) : ReportsRow(scores, k)

\* C12 as amended: a Rejected verdict on a usable query carries the id, name
\* and score of the best-scoring enrolled subject when some subject scores at
\* least 1; when every subject scores 0 it carries the placeholders (name
\* "Unknown", id None) with score 0.
C12_RejectedNamesPositiveCandidate ==
    RejectedUsable =>
        \A scores \in {Scores} :
            IF MaxOf(scores) > 0
            THEN \E k \in 1..Len(df) :
                    ReportsRow(scores, k) /\ scores[k] = MaxOf(scores)
            ELSE outcome.id = NoId /\ outcome.name = UnknownName /\ outcome.score = 0

C12_Witness ==
    /\ RejectedUsable
    /\ outcome.score = threshold - 1
    /\ outcome.id # NoId
    /\ outcome.name # UnknownName

\* The rows of subject id in a sequence of attendance entries.
RowsOf(id, entries) == {k \in 1..Len(entries) : entries[k].Id = id}

\* C13 as stated: each date partition of the attendance ledger holds at most
\* one row per subject id.
C13_LedgerDeduplicates ==
    \A d \in Dates : \A i, j \in 1..Len(attendance[d]) :
        attendance[d][i].Id = attendance[d][j].Id => i = j

\* C13 as amended: each date partition holds one row for every accepted
\* authentication of that date, so a subject accepted n times on a date has
\* n rows in its partition.
C13_OneRowPerAcceptance ==
    \A d \in Dates :
        /\ Len(attendance[d]) = Len(OnDate(d, log))
        /\ \A e \in {log[k] : k \in 1..Len(log)} :
              Cardinality(RowsOf(e.Id, attendance[d]))
                  = Cardinality(RowsOf(e.Id, OnDate(d, log)))

C13_Witness ==
    \E d \in Dates :
        /\ Len(attendance[d]) = 2
        /\ attendance[d][1].Id = attendance[d][2].Id
        /\ Len(log) = 2

\* The descriptor type: ORB rows are binary strings, SIFT rows are floats.
Binary(desc) == desc.width = OrbWidth
Floating(desc) == desc.width = SiftWidth

\* Hamming distance of two binary descriptor vectors: the number of bits
\* in which they differ.
RECURSIVE BitsApart(_, _)
BitsApart(a, b) ==
    IF a = 0 /\ b = 0 THEN 0
    ELSE (IF a % 2 = b % 2 THEN 0 ELSE 1) + BitsApart(a \div 2, b \div 2)

RECURSIVE SumBits(_, _, _)
SumBits(u, v, k) ==
    IF k = 0 THEN 0
    ELSE SumBits(u, v, k - 1) + BitsApart(u[k], v[k])

Hamming(u, v) == SumBits(u, v, Len(u))

\* The k-th smallest Hamming distance from q to the rows.
KthHamming(q, rows, k) ==
    LET D == {Hamming(q, rows[j]) : j \in 1..Len(rows)}
        AtMost(d) == Cardinality({j \in 1..Len(rows) : Hamming(q, rows[j]) <= d})
        Below(d) == Cardinality({j \in 1..Len(rows) : Hamming(q, rows[j]) < d})
    IN  CHOOSE d \in D : Below(d) < k /\ AtMost(d) >= k

\* The query descriptors that pass the ratio test under Hamming distance.
DistinctiveHamming ==
    {i \in 1..Len(query.rows) :
        /\ Len(candidate.rows) >= 2
        /\ RatioDen * KthHamming(query.rows[i], candidate.rows, 1)
             < RatioNum * KthHamming(query.rows[i], candidate.rows, 2)}

GoodQueries == {good[k].queryIdx : k \in 1..Len(good)}

\* C14: get_good_matches compares binary (ORB) descriptors by Hamming
\* distance and floating-point (SIFT) descriptors by Euclidean distance: the
\* matches it returns are those of the ratio test under that metric.
C14_MetricMatchesType ==
    pc = "match_done" /\ Size(query) # 0 /\ Size(candidate) # 0 =>
        /\ Binary(query) /\ Binary(candidate) => GoodQueries = DistinctiveHamming
        /\ Floating(query) /\ Floating(candidate) => GoodQueries = Distinctive

\* C16 as stated: every id in the subject directory is a positive integer;
\* an id input that parses to 0 is rejected.
C16_IdsPositive == \A id \in DetailsIds : id > 0

\* C16 as amended: every id in the subject directory, and every id a
\* register() session works on after its id check, is a non-negative
\* integer; an id input that parses to 0 is accepted and enrolled as id 0.
C16_IdsNonNegative ==
    /\ \A id \in DetailsIds \cup DOMAIN templates \cup DOMAIN descriptors : id >= 0
    /\ pc \in {"reg_upload", "reg_webcam", "reg_save_descriptors", "reg_save_details"}
       => user_id >= 0
    /\ RegisterDone("Registered") => outcome.id = <<user_id>> /\ user_id >= 0

C16_Witness ==
    /\ RegisterDone("Registered")
    /\ outcome.id = <<0>>
    /\ 0 \in DetailsIds

\* C17: in the webcam loop of authenticate() a turn in which the camera
\* delivers no frame ends the session with an acquisition failure instead of
\* polling again, and a turn in which ESC is pressed ends it as cancelled,
\* also when the frame read of that turn fails.
C17_NoInternalRetry ==
    [][pc = "auth_webcam" /\ turn' # <<>> =>
        /\ turn'[1].key = ESC => pc' = "done" /\ outcome'.result = "Cancelled"
        /\ ~turn'[1].ret /\ turn'[1].key # ESC
              => pc' = "done" /\ outcome'.result = "AcquisitionFailed"]_vars

\* Both sessions have ended with a successful registration, of different ids.
BothRegistered ==
    /\ RegisterDone("Registered")
    /\ peer.pc = "done"
    /\ peer.outcome.op = "register"
    /\ peer.outcome.result = "Registered"
    /\ user_id # peer.user_id

Enrolled(id) ==
    /\ id \in DetailsIds
    /\ id \in DOMAIN templates
    /\ id \in DOMAIN descriptors

\* C15: when two register() sessions for two different ids interleave, then
\* after both have completed successfully the gallery holds both subject
\* rows with their template and descriptor files.
C15_ConcurrentEnrollmentSafe ==
    BothRegistered => Enrolled(user_id) /\ Enrolled(peer.user_id)

\* The handler taking the step is register().
RegisterStep ==
    pc \in {"reg_upload", "reg_webcam", "reg_save_descriptors", "reg_save_details"}

\* The subject row and the two stored files of every enrolled id are the
\* same after the step.
EnrolledKept ==
    /\ Len(details') >= Len(details)
    /\ \A i \in 1..Len(details) : details'[i] = details[i]
    /\ \A id \in DetailsIds \cap DOMAIN templates :
          id \in DOMAIN templates' /\ templates'[id] = templates[id]
    /\ \A id \in DetailsIds \cap DOMAIN descriptors :
          id \in DOMAIN descriptors' /\ descriptors'[id] = descriptors[id]

\* C18: no step of authenticate() changes the subject directory or a stored
\* template or descriptor file; only register() changes the gallery, and it
\* leaves the stored subject and files of every enrolled id as they were.
C18_GalleryReadOnly ==
    [][/\ gallery' # gallery => RegisterStep
       /\ EnrolledKept]_vars

\* Every row of every date partition of the ledger.
LedgerEntries == UNION {{attendance[d][k] : k \in 1..Len(attendance[d])} : d \in Dates}

\* C19: every row of every date partition carries the id of a subject of
\* the subject directory, never the placeholders, with the name stored for
\* that id and a score of at least the accept threshold.
C19_LedgerRowsGenuine ==
    \A row \in LedgerEntries :
        /\ row.Id # NoId
        /\ row.Name # UnknownName
        /\ \E i \in 1..Len(details) :
              <<details[i].Id>> = row.Id /\ details[i].Name = row.Name
        /\ row.Score >= threshold

====
